---- MODULE Spec2Model ----
(***************************************************************************)
(* A model of ThreadPool (src/ThreadPool.h): permanent workers, temporary  *)
(* workers, the manager thread, submit() and close(), with the pool mutex, *)
(* the temporary-worker mutex, the manager mutex and the two condition     *)
(* variables.                                                              *)
(*                                                                         *)
(* A step of the model is one critical section or one statement of the     *)
(* source.  A thread that evaluates a wait predicate to false and the      *)
(* moment it blocks on the condition variable are two steps: submit() and  *)
(* close() write m_tasks / m_running and notify without holding m_mutex,   *)
(* so they can run between the two.                                        *)
(***************************************************************************)
EXTENDS Naturals, Integers, Sequences, FiniteSets, TLC

(***************************************************************************)
(* Bounds of the model.                                                    *)
(***************************************************************************)
\* submit() calls made over a run.
MaxTasks == 4
\* Temporary threads the manager creates over a run.
MaxSpawn == 3
\* close() calls made over a run.
MaxCloseCalls == 2
\* Threads that call the operations of one SafeQueue concurrently.
MaxQueueCallers == 2
\* SafeQueue operations called over a run.
MaxQueueOps == 4
\* std::thread::hardware_concurrency() of the machine.
HardwareConcurrency == 2

(***************************************************************************)
(* Program constants.                                                      *)
(***************************************************************************)
\* m_minThreads (ThreadPool.h:39).
MinThreads == 2
\* m_maxThreads (ThreadPool.h:38) is max(20, 2 * hardware_concurrency()).
\* The model keeps the ceiling as a parameter and takes it small, so that
\* the ceiling is reached with few threads.
MaxThreads == 2

\* The submitted callables: the bodies of the odd-numbered calls raise an
\* error, those of the even-numbered calls return.
Raises(k) == k % 2 = 1

\* The threadCount arguments the constructor is called with.
ThreadCounts == {0, 1, 2, 3}

VARIABLES
    running,        \* m_running
    tasks,          \* m_tasks, front first
    nWorkers,       \* m_workers.size()
    pc,             \* where each pool thread is
    held,           \* each worker's local `task` (0: none)
    tempWorkers,    \* keys of m_tempWorkers
    exitQueue,      \* m_threadExitQueue, front first
    nextTid,        \* temporary threads created so far
    joinCount,      \* how often each thread has been joined
    mutex,          \* holder of m_mutex
    tempMutex,      \* holder of m_tempMutex
    managerMutex,   \* holder of m_managerMutex
    elapsed,        \* whole seconds since lastScaleUp, saturating at 1
    spc,            \* where the submitting thread is inside submit()
    cur,            \* the submit() call being made (1, 2, ...)
    result,         \* how each submit() call ended
    handle,         \* each call's future: none / pending / value / error
    execCount,      \* how often each task body ran
    startedClosed,  \* the call started when m_running was already false
    cpc,            \* where the closing thread is inside close()
    cVisited,       \* entries of m_tempWorkers close()'s loop has passed
    cIdx,           \* index of close()'s loop over m_workers
    closeCall,      \* close() calls started so far
    idleAtClose,    \* no submit() call was open when close() was first called
    addNum,         \* addNum of the manager's last addWorkers call (-1: none yet)
    cJoining,       \* the m_tempWorkers entry whose join() a close() call is inside
    ctor,           \* the constructor call: its position and its arguments
    sq,             \* SafeQueue::m_queue of a queue used on its own, front first
    sqMutex,        \* holder of SafeQueue::m_mutex
    sqpc,           \* the SafeQueue operation each caller is inside
    sqPut,          \* elements put into the queue so far
    sqGot,          \* what the try_pop calls returned, in the order of their returns
    sqGen           \* which SafeQueue.h the queue is built from

vars == <<running, tasks, nWorkers, pc, held, tempWorkers, exitQueue, nextTid,
          joinCount, mutex, tempMutex, managerMutex, elapsed, spc, cur, result,
          handle, execCount, startedClosed, cpc, cVisited, cIdx, closeCall,
          idleAtClose, addNum, cJoining, ctor, sq, sqMutex, sqpc, sqPut, sqGot,
          sqGen>>

poolVars == <<running, tasks, nWorkers, pc, held, tempWorkers, exitQueue,
              nextTid, joinCount, mutex, tempMutex, managerMutex, elapsed, addNum>>
submitVars == <<spc, cur, result, startedClosed>>
taskVars == <<handle, execCount>>
closeVars == <<cpc, cVisited, cIdx, cJoining, closeCall, idleAtClose>>
queueVars == <<sq, sqMutex, sqpc, sqPut, sqGot, sqGen>>

(***************************************************************************)
(* Threads.                                                                *)
(***************************************************************************)
W(i) == <<"w", i>>
T(i) == <<"t", i>>
M == <<"m", 0>>
NoThread == <<"none", 0>>

Workers == {W(i) : i \in 1..nWorkers}
Temps == {T(i) : i \in 1..MaxSpawn}
Threads == Workers \cup Temps \cup {M}
TaskIds == 1..MaxTasks

\* The threads that shut the pool down: one calls close(), the other runs
\* the destructor, which calls close() if it finds m_running true.
Caller == "caller"
Dtor == "dtor"
Closers == {Caller, Dtor}

\* The thread that calls submit() and getThreadNum(), as a holder of locks.
Client == <<"c", 0>>

\* The threads that use a SafeQueue on its own.
QCallers == 1..MaxQueueCallers

(***************************************************************************)
(* SafeQueue.  ThreadPool.h calls push(x) and pop(x) on its queues; the    *)
(* SafeQueue.h of the repository has emplace_back / pop_front / front      *)
(* under the queue's own mutex, and push / pop are taken to be these: push *)
(* appends at the back, pop moves the front element out and removes it.    *)
(***************************************************************************)
emplace_back(q, x) == Append(q, x)
front(q) == Head(q)
pop_front(q) == Tail(q)
empty(q) == Len(q) = 0
size(q) == Len(q)
push(q, x) == emplace_back(q, x)
pop(q) == [value |-> front(q), rest |-> pop_front(q)]

emplace_front(q, x) == <<x>> \o q
back(q) == q[Len(q)]
pop_back(q) == SubSeq(q, 1, Len(q) - 1)

\* The value of an empty result (std::nullopt; in old/SafeQueue.h the
\* caller's variable, which is left as it was).
NoValue == 0

\* What a read of an element finds after its destructor has run, when it
\* does not find the element as it was.
Destroyed == -1

\* SafeQueue.h, try_pop_front / try_pop_back: `value` is a reference to
\* the element in the deque (T &&value = std::move(m_queue.front()) moves
\* nothing), pop_front() / pop_back() destroys the element, and the result
\* is then built by reading through the reference.  The read finds the
\* element as it was or what the destructor and the allocator left.
DanglingRead(x) == {x, Destroyed}

try_pop_front(q, seen) ==
    IF empty(q) THEN [present |-> FALSE, value |-> NoValue, rest |-> q]
    ELSE [present |-> TRUE, value |-> seen, rest |-> pop_front(q)]

try_pop_back(q, seen) ==
    IF empty(q) THEN [present |-> FALSE, value |-> NoValue, rest |-> q]
    ELSE [present |-> TRUE, value |-> seen, rest |-> pop_back(q)]

\* old/SafeQueue.h, try_pop_front(T &value) / try_pop_back(T &value): the
\* element is moved into the caller's variable before it is removed.
old_try_pop_front(q) ==
    IF empty(q) THEN [present |-> FALSE, value |-> NoValue, rest |-> q]
    ELSE [present |-> TRUE, value |-> front(q), rest |-> pop_front(q)]

old_try_pop_back(q) ==
    IF empty(q) THEN [present |-> FALSE, value |-> NoValue, rest |-> q]
    ELSE [present |-> TRUE, value |-> back(q), rest |-> pop_back(q)]

(***************************************************************************)
(* The constructor: threadCount == 0 means hardware_concurrency(), and the *)
(* count is brought into [m_minThreads, m_maxThreads].                     *)
(***************************************************************************)
\* Variant: the count is raised to m_minThreads but not cut at m_maxThreads.
ResolveThreadCount_NoCeiling(threadCount) ==
    LET c == IF threadCount = 0 THEN HardwareConcurrency ELSE threadCount
    IN  IF c < MinThreads THEN MinThreads ELSE c

ResolveThreadCount(threadCount) ==
    LET c == IF threadCount = 0 THEN HardwareConcurrency ELSE threadCount
    IN  IF c < MinThreads THEN MinThreads
        ELSE IF c > MaxThreads THEN MaxThreads
        ELSE c

\* The constructor has returned; its frame, with its arguments, is gone.
Constructed == [pc |-> "returned"]

\* No SafeQueue is used on its own.
QueueUnused ==
    /\ sq = <<>>
    /\ sqMutex = 0
    /\ sqpc = [c \in QCallers |-> "idle"]
    /\ sqPut = 0
    /\ sqGot = <<>>
    /\ sqGen = "SafeQueue.h"

\* The pool as the constructor leaves it.
InitPool ==
    /\ running = TRUE
    /\ tasks = <<>>
    /\ \E threadCount \in ThreadCounts : nWorkers = ResolveThreadCount(threadCount)
    /\ \E managerRunning \in BOOLEAN :
         pc = [th \in Threads |->
                 IF th \in Workers THEN "check"
                 ELSE IF th = M THEN (IF managerRunning THEN "loop" ELSE "none")
                 ELSE "unborn"]
    /\ held = [th \in Workers \cup Temps |-> 0]
    /\ tempWorkers = {}
    /\ exitQueue = <<>>
    /\ nextTid = 0
    /\ joinCount = [th \in Threads |-> 0]
    /\ mutex = NoThread
    /\ tempMutex = NoThread
    /\ managerMutex = NoThread
    /\ elapsed = 0
    /\ spc = "idle"
    /\ cur = 1
    /\ result = [k \in TaskIds |-> "none"]
    /\ handle = [k \in TaskIds |-> "none"]
    /\ execCount = [k \in TaskIds |-> 0]
    /\ startedClosed = [k \in TaskIds |-> FALSE]
    /\ cpc = [c \in Closers |-> "idle"]
    /\ cVisited = [c \in Closers |-> {}]
    /\ cIdx = [c \in Closers |-> 1]
    /\ cJoining = [c \in Closers |-> NoThread]
    /\ closeCall = 0
    /\ idleAtClose = FALSE
    /\ addNum = -1

Init ==
    /\ InitPool
    /\ ctor = Constructed
    /\ QueueUnused

(***************************************************************************)
(* Condition variables.  A thread blocked in m_cv.wait / wait_until is at  *)
(* "blocked"; a notified thread goes back to taking m_mutex and evaluating *)
(* its predicate.                                                          *)
(***************************************************************************)
Waiters == {th \in Workers \cup Temps : pc[th] = "blocked"}

\* m_cv.notify_one(): one waiter, if there is any, is woken.
notify_one(p) ==
    IF Waiters = {} THEN {p}
    ELSE {[p EXCEPT ![th] = "check"] : th \in Waiters}

\* m_cv.notify_all()
notify_all(p) ==
    [th \in DOMAIN p |-> IF th \in Waiters THEN "check" ELSE p[th]]

\* m_managerCV.notify_one()
notify_manager(p) ==
    IF p[M] = "blocked" THEN [p EXCEPT ![M] = "woken"] ELSE p

(***************************************************************************)
(* worker() and tempWorker(): the wait predicate and the exit test.        *)
(***************************************************************************)
\* Variant: a wait without a predicate, which any wake-up ends.
WaitPred_Always(q, run) == TRUE

\* The predicate of m_cv.wait / wait_until: !m_tasks.empty() || !m_running
WaitPred(q, run) == ~empty(q) \/ ~run

\* Variant: the exit test without the queue, if (!m_running) return;
ShouldExit_IgnoringQueue(q, run) == ~run

\* if (!m_running && m_tasks.empty()) return;
ShouldExit(q, run) == ~run /\ empty(q)

\* Variant: the worker copies the front task and leaves it in the queue.
TakeTask_WithoutRemoving(q) == [value |-> front(q), rest |-> q]

\* m_tasks.pop(task): the worker's local task and what is left in the queue.
TakeTask(q) == pop(q)

\* task(): the packaged_task runs the body and stores the value or the
\* exception in the shared state; nothing is thrown to the worker, whose own
\* try / catch would catch it too.  What the future holds afterwards.
Outcome(raises) == IF raises THEN "error" ELSE "value"

\* Variant: an error raised by the body ends the thread.
AfterTask_ErrorEndsThread(raises) == IF raises THEN "done" ELSE "check"

\* Where the thread is after task() (it loops either way).
AfterTask(raises) == "check"

\* The step from taking m_mutex to leaving the critical section, or to the
\* point of blocking: with m_mutex held, the predicate is evaluated; if it
\* holds, the thread returns or pops; if not, it is about to block.
\* m_tasks.pop(task) on an empty deque is undefined (SafeQueue.h line 33:
\* the caller has to test for emptiness before a pop); a thread that does
\* it is at "undefined" and is not followed further.
CheckStep(th) ==
    /\ mutex = NoThread
    /\ IF WaitPred(tasks, running)
       THEN IF ShouldExit(tasks, running)
            THEN /\ pc' = [pc EXCEPT ![th] = "done"]
                 /\ UNCHANGED <<tasks, held, mutex>>
            ELSE IF empty(tasks)
            THEN /\ pc' = [pc EXCEPT ![th] = "undefined"]
                 /\ UNCHANGED <<tasks, held, mutex>>
            ELSE /\ tasks' = TakeTask(tasks).rest
                 /\ held' = [held EXCEPT ![th] = TakeTask(tasks).value]
                 /\ pc' = [pc EXCEPT ![th] = "exec"]
                 /\ UNCHANGED mutex
       ELSE /\ pc' = [pc EXCEPT ![th] = "prewait"]
            /\ mutex' = th
            /\ UNCHANGED <<tasks, held>>

RunStep(th) ==
    /\ pc[th] = "exec"
    /\ handle' = [handle EXCEPT ![held[th]] = Outcome(Raises(held[th]))]
    /\ pc' = [pc EXCEPT ![th] = AfterTask(Raises(held[th]))]
    /\ execCount' = [execCount EXCEPT ![held[th]] = @ + 1]
    /\ held' = [held EXCEPT ![th] = 0]

\* worker(), lines 183-190.
worker_check(w) ==
    /\ pc[w] = "check"
    /\ CheckStep(w)
    /\ UNCHANGED <<running, nWorkers, tempWorkers, exitQueue, nextTid, joinCount,
                   tempMutex, managerMutex, elapsed, addNum>>
    /\ UNCHANGED <<submitVars, taskVars, closeVars>>
    /\ UNCHANGED <<ctor, queueVars>>

\* m_cv.wait releases m_mutex and blocks.
worker_block(w) ==
    /\ pc[w] = "prewait"
    /\ mutex = w
    /\ mutex' = NoThread
    /\ pc' = [pc EXCEPT ![w] = "blocked"]
    /\ UNCHANGED <<running, tasks, nWorkers, held, tempWorkers, exitQueue, nextTid,
                   joinCount, tempMutex, managerMutex, elapsed, addNum>>
    /\ UNCHANGED <<submitVars, taskVars, closeVars>>
    /\ UNCHANGED <<ctor, queueVars>>

\* worker(), lines 192-205.
worker_run(w) ==
    /\ RunStep(w)
    /\ UNCHANGED <<running, tasks, nWorkers, tempWorkers, exitQueue, nextTid,
                   joinCount, mutex, tempMutex, managerMutex, elapsed, addNum>>
    /\ UNCHANGED <<submitVars, closeVars>>
    /\ UNCHANGED <<ctor, queueVars>>

(***************************************************************************)
(* tempWorker()                                                            *)
(***************************************************************************)
\* tempWorker(), lines 225-240, the predicate found true or false before
\* the timeout.
tempWorker_check(t) ==
    /\ pc[t] = "check"
    /\ CheckStep(t)
    /\ UNCHANGED <<running, nWorkers, tempWorkers, exitQueue, nextTid, joinCount,
                   tempMutex, managerMutex, elapsed, addNum>>
    /\ UNCHANGED <<submitVars, taskVars, closeVars>>
    /\ UNCHANGED <<ctor, queueVars>>

tempWorker_block(t) ==
    /\ pc[t] = "prewait"
    /\ mutex = t
    /\ mutex' = NoThread
    /\ pc' = [pc EXCEPT ![t] = "blocked"]
    /\ UNCHANGED <<running, tasks, nWorkers, held, tempWorkers, exitQueue, nextTid,
                   joinCount, tempMutex, managerMutex, elapsed, addNum>>
    /\ UNCHANGED <<submitVars, taskVars, closeVars>>
    /\ UNCHANGED <<ctor, queueVars>>

\* Variant: the wait without a deadline, which never reports a timeout.
wasNotified_Always(q, run) == TRUE

\* Variant: at the deadline only a queued task counts as a notification.
wasNotified_TasksOnly(q, run) == ~empty(q)

\* Line 227: what wait_until returns at its deadline, the predicate's value.
wasNotified(q, run) == WaitPred(q, run)

\* wait_until reaches its timeout: it takes m_mutex again and returns the
\* predicate's value.  wasNotified false leads to the retirement block.
tempWorker_timeout(t) ==
    /\ pc[t] = "blocked"
    /\ mutex = NoThread
    /\ IF wasNotified(tasks, running)
       THEN CheckStep(t)
       ELSE /\ pc' = [pc EXCEPT ![t] = "retire"]
            /\ mutex' = t
            /\ UNCHANGED <<tasks, held>>
    /\ UNCHANGED <<running, nWorkers, tempWorkers, exitQueue, nextTid, joinCount,
                   tempMutex, managerMutex, elapsed, addNum>>
    /\ UNCHANGED <<submitVars, taskVars, closeVars>>
    /\ UNCHANGED <<ctor, queueVars>>

\* tempWorker(), lines 232-235: under m_mutex and m_tempMutex the thread
\* moves its own handle to m_threadExitQueue, erases its entry and returns.
tempWorker_retire(t) ==
    /\ pc[t] = "retire"
    /\ mutex = t
    /\ tempMutex = NoThread
    /\ exitQueue' = push(exitQueue, t)
    /\ tempWorkers' = tempWorkers \ {t}
    /\ pc' = [pc EXCEPT ![t] = "done"]
    /\ mutex' = NoThread
    /\ UNCHANGED <<running, tasks, nWorkers, held, nextTid, joinCount, tempMutex,
                   managerMutex, elapsed, addNum>>
    /\ UNCHANGED <<submitVars, taskVars, closeVars>>
    /\ UNCHANGED <<ctor, queueVars>>

tempWorker_run(t) ==
    /\ RunStep(t)
    /\ UNCHANGED <<running, tasks, nWorkers, tempWorkers, exitQueue, nextTid,
                   joinCount, mutex, tempMutex, managerMutex, elapsed, addNum>>
    /\ UNCHANGED <<submitVars, closeVars>>
    /\ UNCHANGED <<ctor, queueVars>>

(***************************************************************************)
(* Threads and joins.                                                      *)
(***************************************************************************)
\* joinable() of a std::thread that stays where it is (m_manager, an
\* element of m_workers, an entry of m_tempWorkers): it stands for a started
\* thread on which no join() has returned.
joinable(th) == pc[th] \notin {"none", "unborn"} /\ joinCount[th] = 0

\* joinable() of a std::thread popped from m_threadExitQueue: the object was
\* move-constructed from the map's entry of a started thread and keeps the
\* thread's id until join() is called on this very object.
joinableMoved(th) == pc[th] \notin {"none", "unborn"}

\* std::thread::join() returns once the thread has ended.
Terminated(th) == pc[th] = "done"

(***************************************************************************)
(* addWorkers(threadCount, true): the number of temporary threads created, *)
(* for (i = 0; i < threadCount && m_tempWorkers.size() < m_maxThreads; ++i)*)
(***************************************************************************)
RECURSIVE AddLoop(_, _, _)
AddLoop(i, threadCount, sz) ==
    IF i < threadCount /\ sz < MaxThreads
    THEN AddLoop(i + 1, threadCount, sz + 1)
    ELSE i

\* Variant: the loop bound written m_tempWorkers.size() <= m_maxThreads.
RECURSIVE AddLoop_OffByOne(_, _, _)
AddLoop_OffByOne(i, threadCount, sz) ==
    IF i < threadCount /\ sz <= MaxThreads
    THEN AddLoop_OffByOne(i + 1, threadCount, sz + 1)
    ELSE i

addWorkersTemp_OffByOne(threadCount, sz) == AddLoop_OffByOne(0, threadCount, sz)

addWorkersTemp(threadCount, sz) == AddLoop(0, threadCount, sz)

\* m_workers.size() + m_tempWorkers.size()
getThreadNum == nWorkers + Cardinality(tempWorkers)

(***************************************************************************)
(* manager()                                                               *)
(***************************************************************************)
\* Variant: the predicate without the test of the time since lastScaleUp.
ManagerPred_NoRateLimit ==
    size(tasks) >= 2 * nWorkers \/ ~running

\* The predicate of m_managerCV.wait_until, lines 325-330.
ManagerPred ==
    (elapsed >= 1 /\ size(tasks) >= 2 * nWorkers) \/ ~running

\* while (m_running), the lock of m_managerMutex and the first evaluation
\* of the predicate.
manager_loop ==
    /\ pc[M] = "loop"
    /\ IF ~running
       THEN /\ pc' = [pc EXCEPT ![M] = "done"]
            /\ UNCHANGED managerMutex
       ELSE /\ managerMutex = NoThread
            /\ managerMutex' = M
            /\ pc' = [pc EXCEPT ![M] = IF ManagerPred THEN "afterwait" ELSE "prewait"]
    /\ UNCHANGED <<running, tasks, nWorkers, held, tempWorkers, exitQueue, nextTid,
                   joinCount, mutex, tempMutex, elapsed, addNum>>
    /\ UNCHANGED <<submitVars, taskVars, closeVars>>
    /\ UNCHANGED <<ctor, queueVars>>

\* wait_until releases m_managerMutex and blocks.
manager_block ==
    /\ pc[M] = "prewait"
    /\ managerMutex' = NoThread
    /\ pc' = [pc EXCEPT ![M] = "blocked"]
    /\ UNCHANGED <<running, tasks, nWorkers, held, tempWorkers, exitQueue, nextTid,
                   joinCount, mutex, tempMutex, elapsed, addNum>>
    /\ UNCHANGED <<submitVars, taskVars, closeVars>>
    /\ UNCHANGED <<ctor, queueVars>>

\* Notified: the manager takes m_managerMutex and evaluates the predicate.
manager_wake ==
    /\ pc[M] = "woken"
    /\ managerMutex = NoThread
    /\ managerMutex' = M
    /\ pc' = [pc EXCEPT ![M] = IF ManagerPred THEN "afterwait" ELSE "prewait"]
    /\ UNCHANGED <<running, tasks, nWorkers, held, tempWorkers, exitQueue, nextTid,
                   joinCount, mutex, tempMutex, elapsed, addNum>>
    /\ UNCHANGED <<submitVars, taskVars, closeVars>>
    /\ UNCHANGED <<ctor, queueVars>>

\* The 2 s timeout: wait_until returns whatever the predicate says.  The
\* timeout lies 2 s after a `now` that is not before lastScaleUp, so at least
\* 1 s has passed since lastScaleUp when it is reached.
manager_timeout ==
    /\ pc[M] = "blocked"
    /\ elapsed >= 1
    /\ managerMutex = NoThread
    /\ managerMutex' = M
    /\ pc' = [pc EXCEPT ![M] = "afterwait"]
    /\ UNCHANGED <<running, tasks, nWorkers, held, tempWorkers, exitQueue, nextTid,
                   joinCount, mutex, tempMutex, elapsed, addNum>>
    /\ UNCHANGED <<submitVars, taskVars, closeVars>>
    /\ UNCHANGED <<ctor, queueVars>>

\* if (!m_running) return;
manager_afterwait ==
    /\ pc[M] = "afterwait"
    /\ IF ~running
       THEN /\ pc' = [pc EXCEPT ![M] = "done"]
            /\ managerMutex' = NoThread
       ELSE /\ pc' = [pc EXCEPT ![M] = "reap"]
            /\ UNCHANGED managerMutex
    /\ UNCHANGED <<running, tasks, nWorkers, held, tempWorkers, exitQueue, nextTid,
                   joinCount, mutex, tempMutex, elapsed, addNum>>
    /\ UNCHANGED <<submitVars, taskVars, closeVars>>
    /\ UNCHANGED <<ctor, queueVars>>

\* while (!m_threadExitQueue.empty()) { pop(t); if (t.joinable()) t.join(); }
\* one round of the loop, or its end.
manager_reap ==
    /\ pc[M] = "reap"
    /\ IF empty(exitQueue)
       THEN /\ pc' = [pc EXCEPT ![M] = "scale"]
            /\ UNCHANGED <<exitQueue, joinCount>>
       ELSE LET t == pop(exitQueue).value
            IN  /\ exitQueue' = pop(exitQueue).rest
                /\ IF joinableMoved(t)
                   THEN /\ Terminated(t)
                        /\ joinCount' = [joinCount EXCEPT ![t] = @ + 1]
                   ELSE UNCHANGED joinCount
                /\ UNCHANGED pc
    /\ UNCHANGED <<running, tasks, nWorkers, held, tempWorkers, nextTid, mutex,
                   tempMutex, managerMutex, elapsed, addNum>>
    /\ UNCHANGED <<submitVars, taskVars, closeVars>>
    /\ UNCHANGED <<ctor, queueVars>>

\* Variant: the scale-up test with the factor 2 left out.
ScaleUpNeeded_AnyBacklog(q, n) == size(q) >= n

\* Line 343: if (m_tasks.size() >= 2 * m_workers.size())
ScaleUpNeeded(q, n) == size(q) >= 2 * n

\* Lines 289 and 346: ok, which is addNum > 0.
ScaledUp(n) == n > 0

\* Line 343: the scale-up test; if it fails, the end of the loop body,
\* which unlocks m_managerMutex.
manager_scale ==
    /\ pc[M] = "scale"
    /\ IF ScaleUpNeeded(tasks, nWorkers)
       THEN /\ pc' = [pc EXCEPT ![M] = "addWorkers"]
            /\ UNCHANGED managerMutex
       ELSE /\ pc' = [pc EXCEPT ![M] = "loop"]
            /\ managerMutex' = NoThread
    /\ UNCHANGED <<running, tasks, nWorkers, held, tempWorkers, exitQueue, nextTid,
                   joinCount, mutex, tempMutex, elapsed, addNum>>
    /\ UNCHANGED <<submitVars, taskVars, closeVars>>
    /\ UNCHANGED <<ctor, queueVars>>

\* Lines 345-348: addWorkers(m_workers.size(), true) under m_tempMutex,
\* lastScaleUp = now if a thread was created; then the end of the loop
\* body, which unlocks m_managerMutex.
manager_addWorkers ==
    /\ pc[M] = "addWorkers"
    /\ LET n == addWorkersTemp(nWorkers, Cardinality(tempWorkers))
           new == {T(i) : i \in (nextTid + 1)..(nextTid + n)}
       IN  /\ tempMutex = NoThread
           /\ nextTid + n <= MaxSpawn
           /\ tempWorkers' = tempWorkers \cup new
           /\ nextTid' = nextTid + n
           /\ pc' = [th \in Threads |->
                       IF th \in new THEN "check"
                       ELSE IF th = M THEN "loop" ELSE pc[th]]
           /\ addNum' = n
           /\ elapsed' = IF ScaledUp(n) THEN 0 ELSE elapsed
    /\ managerMutex' = NoThread
    /\ UNCHANGED <<running, tasks, nWorkers, held, exitQueue, joinCount, mutex,
                   tempMutex>>
    /\ UNCHANGED <<submitVars, taskVars, closeVars>>
    /\ UNCHANGED <<ctor, queueVars>>

\* A second passes on the clock lastScaleUp is compared with.
Tick ==
    /\ pc[M] \notin {"none", "done"}
    /\ elapsed < 1
    /\ elapsed' = elapsed + 1
    /\ UNCHANGED <<running, tasks, nWorkers, pc, held, tempWorkers, exitQueue,
                   nextTid, joinCount, mutex, tempMutex, managerMutex, addNum>>
    /\ UNCHANGED <<submitVars, taskVars, closeVars>>
    /\ UNCHANGED <<ctor, queueVars>>

(***************************************************************************)
(* submit()                                                                *)
(***************************************************************************)
\* Variant: submit() without the test of m_running.
SubmitRejects_Never(run) == FALSE

\* if (!m_running.load()) throw std::runtime_error(...)
SubmitRejects(run) == ~run

\* Lines 149-150: the packaged_task and its shared state are made.
submit_start ==
    /\ spc = "idle"
    /\ cur <= MaxTasks
    /\ spc' = "created"
    /\ handle' = [handle EXCEPT ![cur] = "pending"]
    /\ startedClosed' = [startedClosed EXCEPT ![cur] = ~running]
    /\ UNCHANGED <<cur, result, execCount>>
    /\ UNCHANGED <<poolVars, closeVars>>
    /\ UNCHANGED <<ctor, queueVars>>

\* Lines 152-153.
submit_check ==
    /\ spc = "created"
    /\ IF SubmitRejects(running)
       THEN /\ result' = [result EXCEPT ![cur] = "rejected"]
            /\ spc' = "idle"
            /\ cur' = cur + 1
       ELSE /\ spc' = "checked"
            /\ UNCHANGED <<result, cur>>
    /\ UNCHANGED startedClosed
    /\ UNCHANGED <<poolVars, taskVars, closeVars>>
    /\ UNCHANGED <<ctor, queueVars>>

\* Lines 155-156.
submit_push ==
    /\ spc = "checked"
    /\ tasks' = push(tasks, cur)
    /\ spc' = "pushed"
    /\ UNCHANGED <<running, nWorkers, pc, held, tempWorkers, exitQueue, nextTid,
                   joinCount, mutex, tempMutex, managerMutex, elapsed, addNum>>
    /\ UNCHANGED <<cur, result, startedClosed>>
    /\ UNCHANGED <<taskVars, closeVars>>
    /\ UNCHANGED <<ctor, queueVars>>

\* Line 158.
submit_notify ==
    /\ spc = "pushed"
    /\ pc' \in notify_one(pc)
    /\ spc' = "notified"
    /\ UNCHANGED <<running, tasks, nWorkers, held, tempWorkers, exitQueue, nextTid,
                   joinCount, mutex, tempMutex, managerMutex, elapsed, addNum>>
    /\ UNCHANGED <<cur, result, startedClosed>>
    /\ UNCHANGED <<taskVars, closeVars>>
    /\ UNCHANGED <<ctor, queueVars>>

\* Lines 159-160: the manager is notified and the future returned.
submit_return ==
    /\ spc = "notified"
    /\ pc' = notify_manager(pc)
    /\ result' = [result EXCEPT ![cur] = "accepted"]
    /\ spc' = "idle"
    /\ cur' = cur + 1
    /\ UNCHANGED <<running, tasks, nWorkers, held, tempWorkers, exitQueue, nextTid,
                   joinCount, mutex, tempMutex, managerMutex, elapsed, addNum>>
    /\ UNCHANGED startedClosed
    /\ UNCHANGED <<taskVars, closeVars>>
    /\ UNCHANGED <<ctor, queueVars>>

(***************************************************************************)
(* close() and ~ThreadPool().  A step of close() runs from one point where *)
(* the call can wait, which is the inside of a join(), to the next.  A     *)
(* join is two steps: the test of joinable(), and the return of join()     *)
(* once the thread has ended.  close() takes no lock, so other threads, a  *)
(* second close() call included, run while it waits in a join.             *)
(***************************************************************************)
\* for (auto &worker : m_workers) from element i on: the first element
\* that is joinable (nWorkers + 1: the loop ends).
RECURSIVE PassWorkers(_)
PassWorkers(i) ==
    IF i > nWorkers THEN i
    ELSE IF joinable(W(i)) THEN i
    ELSE PassWorkers(i + 1)

\* for (auto &[id, worker] : m_tempWorkers), the entries `visited` passed:
\* the loop goes on in key order to the first entry that is joinable
\* (NoThread: the loop ends).  The loop runs without m_tempMutex while
\* temporary workers erase their entries; it finds the map as it is when it
\* looks.
RECURSIVE PassTemps(_)
PassTemps(visited) ==
    LET left == tempWorkers \ visited
    IN  IF left = {} THEN [t |-> NoThread, visited |-> visited]
        ELSE LET t == CHOOSE x \in left : \A y \in left : x[2] <= y[2]
             IN  IF joinable(t) THEN [t |-> t, visited |-> visited]
                 ELSE PassTemps(visited \cup {t})

\* Lines 115-118 from element i on: close() is inside the join of a
\* worker, or has returned.
JoinWorkersFrom(c, i) ==
    /\ cIdx' = [cIdx EXCEPT ![c] = PassWorkers(i)]
    /\ cpc' = [cpc EXCEPT ![c] = IF PassWorkers(i) > nWorkers THEN "returned"
                                 ELSE "joiningWorker"]

\* Lines 112-118 with the entries `visited` passed: close() is inside the
\* join of a temporary worker or of a worker, or has returned.
JoinTempsFrom(c, visited) ==
    LET r == PassTemps(visited)
    IN  /\ cVisited' = [cVisited EXCEPT ![c] = r.visited]
        /\ cJoining' = [cJoining EXCEPT ![c] = r.t]
        /\ IF r.t # NoThread
           THEN /\ cpc' = [cpc EXCEPT ![c] = "joiningTemp"]
                /\ UNCHANGED cIdx
           ELSE JoinWorkersFrom(c, 1)

\* ~ThreadPool(), line 85: if (m_running) close();
dtor_check ==
    /\ cpc[Dtor] = "idle"
    /\ cpc' = [cpc EXCEPT ![Dtor] = IF running THEN "called" ELSE "returned"]
    /\ UNCHANGED <<cVisited, cIdx, cJoining, closeCall, idleAtClose>>
    /\ UNCHANGED <<poolVars, submitVars, taskVars, ctor, queueVars>>

\* Line 97: m_running = false.
close_start(c) ==
    /\ \/ cpc[c] = "called"
       \/ c = Caller /\ cpc[c] \in {"idle", "returned"} /\ closeCall < MaxCloseCalls
    /\ running' = FALSE
    /\ cpc' = [cpc EXCEPT ![c] = "notifyManager"]
    /\ closeCall' = closeCall + 1
    /\ idleAtClose' = IF closeCall = 0 THEN spc = "idle" ELSE idleAtClose
    /\ cVisited' = [cVisited EXCEPT ![c] = {}]
    /\ cIdx' = [cIdx EXCEPT ![c] = 1]
    /\ UNCHANGED <<tasks, nWorkers, pc, held, tempWorkers, exitQueue, nextTid,
                   joinCount, mutex, tempMutex, managerMutex, elapsed, addNum>>
    /\ UNCHANGED <<cJoining, submitVars, taskVars, ctor, queueVars>>

\* Lines 99-100: m_managerCV.notify_one(); if (m_manager.joinable())
close_notifyManager(c) ==
    /\ cpc[c] = "notifyManager"
    /\ pc' = notify_manager(pc)
    /\ cpc' = [cpc EXCEPT ![c] = IF joinable(M) THEN "joiningManager" ELSE "drain"]
    /\ UNCHANGED <<running, tasks, nWorkers, held, tempWorkers, exitQueue, nextTid,
                   joinCount, mutex, tempMutex, managerMutex, elapsed, addNum>>
    /\ UNCHANGED <<cVisited, cIdx, cJoining, closeCall, idleAtClose>>
    /\ UNCHANGED <<submitVars, taskVars, ctor, queueVars>>

\* Line 101: m_manager.join() returns.
close_joinedManager(c) ==
    /\ cpc[c] = "joiningManager"
    /\ Terminated(M)
    /\ joinCount' = [joinCount EXCEPT ![M] = @ + 1]
    /\ cpc' = [cpc EXCEPT ![c] = "drain"]
    /\ UNCHANGED <<running, tasks, nWorkers, pc, held, tempWorkers, exitQueue,
                   nextTid, mutex, tempMutex, managerMutex, elapsed, addNum>>
    /\ UNCHANGED <<cVisited, cIdx, cJoining, closeCall, idleAtClose>>
    /\ UNCHANGED <<submitVars, taskVars, ctor, queueVars>>

\* Lines 103-109, one round of the loop, or its end.  The popped handle is
\* a local of close(); its thread ended right after pushing it.
close_drain(c) ==
    /\ cpc[c] = "drain"
    /\ IF empty(exitQueue)
       THEN /\ cpc' = [cpc EXCEPT ![c] = "notifyAll"]
            /\ UNCHANGED <<exitQueue, joinCount>>
       ELSE LET t == pop(exitQueue).value
            IN  /\ exitQueue' = pop(exitQueue).rest
                /\ IF joinableMoved(t)
                   THEN /\ Terminated(t)
                        /\ joinCount' = [joinCount EXCEPT ![t] = @ + 1]
                   ELSE UNCHANGED joinCount
                /\ UNCHANGED cpc
    /\ UNCHANGED <<running, tasks, nWorkers, pc, held, tempWorkers, nextTid, mutex,
                   tempMutex, managerMutex, elapsed, addNum>>
    /\ UNCHANGED <<cVisited, cIdx, cJoining, closeCall, idleAtClose>>
    /\ UNCHANGED <<submitVars, taskVars, ctor, queueVars>>

\* Line 111, and lines 112-118 up to the first join.
close_notifyAll(c) ==
    /\ cpc[c] = "notifyAll"
    /\ pc' = notify_all(pc)
    /\ JoinTempsFrom(c, {})
    /\ UNCHANGED <<running, tasks, nWorkers, held, tempWorkers, exitQueue, nextTid,
                   joinCount, mutex, tempMutex, managerMutex, elapsed, addNum>>
    /\ UNCHANGED <<closeCall, idleAtClose>>
    /\ UNCHANGED <<submitVars, taskVars, ctor, queueVars>>

\* Line 114: worker.join() returns, and the loops go on to the next join.
\* join() waits on the thread it read from the entry when it was called,
\* whether or not that thread has moved its handle out of the entry and
\* erased the entry since.
close_joinedTemp(c) ==
    /\ cpc[c] = "joiningTemp"
    /\ Terminated(cJoining[c])
    /\ joinCount' = [joinCount EXCEPT ![cJoining[c]] = @ + 1]
    /\ JoinTempsFrom(c, cVisited[c] \cup {cJoining[c]})
    /\ UNCHANGED <<running, tasks, nWorkers, pc, held, tempWorkers, exitQueue,
                   nextTid, mutex, tempMutex, managerMutex, elapsed, addNum>>
    /\ UNCHANGED <<closeCall, idleAtClose>>
    /\ UNCHANGED <<submitVars, taskVars, ctor, queueVars>>

\* Line 117: worker.join() returns, and the loop goes on to the next join
\* or close() returns.
close_joinedWorker(c) ==
    /\ cpc[c] = "joiningWorker"
    /\ Terminated(W(cIdx[c]))
    /\ joinCount' = [joinCount EXCEPT ![W(cIdx[c])] = @ + 1]
    /\ JoinWorkersFrom(c, cIdx[c] + 1)
    /\ UNCHANGED <<running, tasks, nWorkers, pc, held, tempWorkers, exitQueue,
                   nextTid, mutex, tempMutex, managerMutex, elapsed, addNum>>
    /\ UNCHANGED <<cVisited, cJoining, closeCall, idleAtClose>>
    /\ UNCHANGED <<submitVars, taskVars, ctor, queueVars>>

(***************************************************************************)
(* A condition variable may wake a waiter that nobody notified; the waiter *)
(* takes its mutex and evaluates its predicate again.                      *)
(***************************************************************************)
spurious_wake(th) ==
    /\ pc[th] = "blocked"
    /\ pc' = [pc EXCEPT ![th] = IF th = M THEN "woken" ELSE "check"]
    /\ UNCHANGED <<running, tasks, nWorkers, held, tempWorkers, exitQueue, nextTid,
                   joinCount, mutex, tempMutex, managerMutex, elapsed, addNum>>
    /\ UNCHANGED <<submitVars, taskVars, closeVars>>
    /\ UNCHANGED <<ctor, queueVars>>

(***************************************************************************)
(* The specification.                                                      *)
(***************************************************************************)
Next ==
    \/ \E w \in Workers : worker_check(w)
    \/ \E w \in Workers : worker_block(w)
    \/ \E w \in Workers : worker_run(w)
    \/ \E t \in Temps : tempWorker_check(t)
    \/ \E t \in Temps : tempWorker_block(t)
    \/ \E t \in Temps : tempWorker_timeout(t)
    \/ \E t \in Temps : tempWorker_retire(t)
    \/ \E t \in Temps : tempWorker_run(t)
    \/ manager_loop
    \/ manager_block
    \/ manager_wake
    \/ manager_timeout
    \/ manager_afterwait
    \/ manager_reap
    \/ manager_scale
    \/ manager_addWorkers
    \/ Tick
    \/ submit_start
    \/ submit_check
    \/ submit_push
    \/ submit_notify
    \/ submit_return
    \/ close_start(Caller)
    \/ close_notifyManager(Caller)
    \/ close_joinedManager(Caller)
    \/ close_drain(Caller)
    \/ close_notifyAll(Caller)
    \/ close_joinedTemp(Caller)
    \/ close_joinedWorker(Caller)
    \/ \E th \in Threads : spurious_wake(th)

Spec == Init /\ [][Next]_vars

(***************************************************************************)
(* The pool without dynamic scaling (managerRunning == false): no manager  *)
(* and no temporary worker exists, so close() has none of them to join.    *)
(* The fair specification adds what the scheduler gives: a thread that can *)
(* take its next step takes it, a task body ends, an open submit() or      *)
(* close() call goes on.  Nobody promises a further call of submit() or    *)
(* close(), nor a spurious wake-up.                                        *)
(***************************************************************************)
InitStatic == Init /\ pc[M] = "none"

\* A step of the close() call of thread c.
CloseStepOf(c) ==
    \/ close_start(c)
    \/ close_notifyManager(c)
    \/ close_joinedManager(c)
    \/ close_drain(c)
    \/ close_notifyAll(c)
    \/ close_joinedTemp(c)
    \/ close_joinedWorker(c)

CloseStep == CloseStepOf(Caller)

NextStatic ==
    \/ \E w \in Workers : worker_check(w)
    \/ \E w \in Workers : worker_block(w)
    \/ \E w \in Workers : worker_run(w)
    \/ \E w \in Workers : spurious_wake(w)
    \/ submit_start
    \/ submit_check
    \/ submit_push
    \/ submit_notify
    \/ submit_return
    \/ close_start(Caller)
    \/ close_notifyManager(Caller)
    \/ close_drain(Caller)
    \/ close_notifyAll(Caller)
    \/ close_joinedWorker(Caller)

FairnessStatic ==
    /\ \A i \in 1..MaxThreads :
         /\ WF_vars(i <= nWorkers /\ worker_check(W(i)))
         /\ WF_vars(i <= nWorkers /\ worker_block(W(i)))
         /\ WF_vars(i <= nWorkers /\ worker_run(W(i)))
    /\ WF_vars(submit_check)
    /\ WF_vars(submit_push)
    /\ WF_vars(submit_notify)
    /\ WF_vars(submit_return)
    /\ WF_vars(close_notifyManager(Caller))
    /\ WF_vars(close_drain(Caller))
    /\ WF_vars(close_notifyAll(Caller))
    /\ WF_vars(close_joinedWorker(Caller))

FairStatic == InitStatic /\ [][NextStatic]_vars /\ FairnessStatic

(***************************************************************************)
(* The constructor as an operation.  Before it runs there is no pool: no   *)
(* thread, and m_running is not yet true.  ThreadPool(threadCount,         *)
(* managerRunning) sets m_running, resolves and clamps threadCount, starts *)
(* that many permanent workers and, if asked to, the manager.  The call is *)
(* kept with its arguments after it has returned.  What follows it are the *)
(* calls of submit() and the steps of the permanent workers.               *)
(***************************************************************************)
WorkersOf(n) == {W(i) : i \in 1..n}

InitCtor ==
    /\ running = FALSE
    /\ tasks = <<>>
    /\ nWorkers = 0
    /\ pc = [th \in Temps \cup {M} |-> IF th = M THEN "none" ELSE "unborn"]
    /\ held = [th \in Temps |-> 0]
    /\ tempWorkers = {}
    /\ exitQueue = <<>>
    /\ nextTid = 0
    /\ joinCount = [th \in Temps \cup {M} |-> 0]
    /\ mutex = NoThread
    /\ tempMutex = NoThread
    /\ managerMutex = NoThread
    /\ elapsed = 0
    /\ spc = "idle"
    /\ cur = 1
    /\ result = [k \in TaskIds |-> "none"]
    /\ handle = [k \in TaskIds |-> "none"]
    /\ execCount = [k \in TaskIds |-> 0]
    /\ startedClosed = [k \in TaskIds |-> FALSE]
    /\ cpc = [c \in Closers |-> "idle"]
    /\ cVisited = [c \in Closers |-> {}]
    /\ cIdx = [c \in Closers |-> 1]
    /\ cJoining = [c \in Closers |-> NoThread]
    /\ closeCall = 0
    /\ idleAtClose = FALSE
    /\ addNum = -1
    /\ \E threadCount \in ThreadCounts, managerRunning \in BOOLEAN :
         ctor = [pc |-> "called", threadCount |-> threadCount,
                 managerRunning |-> managerRunning]
    /\ QueueUnused

\* Lines 67-81.
ThreadPool_ctor ==
    /\ ctor.pc = "called"
    /\ LET n == ResolveThreadCount(ctor.threadCount)
       IN  /\ running' = TRUE
           /\ nWorkers' = n
           /\ pc' = [th \in WorkersOf(n) \cup Temps \cup {M} |->
                       IF th \in WorkersOf(n) THEN "check"
                       ELSE IF th = M
                            THEN (IF ctor.managerRunning THEN "loop" ELSE "none")
                            ELSE "unborn"]
           /\ held' = [th \in WorkersOf(n) \cup Temps |-> 0]
           /\ joinCount' = [th \in WorkersOf(n) \cup Temps \cup {M} |-> 0]
    /\ ctor' = [ctor EXCEPT !.pc = "returned"]
    /\ UNCHANGED <<tasks, tempWorkers, exitQueue, nextTid, mutex, tempMutex,
                   managerMutex, elapsed, addNum>>
    /\ UNCHANGED <<submitVars, taskVars, closeVars, queueVars>>

NextCtor ==
    \/ ThreadPool_ctor
    \/ \E w \in Workers : worker_check(w)
    \/ \E w \in Workers : worker_block(w)
    \/ \E w \in Workers : worker_run(w)
    \/ \E w \in Workers : spurious_wake(w)
    \/ ctor.pc = "returned" /\ submit_start
    \/ submit_check
    \/ submit_push
    \/ submit_notify
    \/ submit_return

SpecCtor == InitCtor /\ [][NextCtor]_vars

(***************************************************************************)
(* The pool with dynamic scaling (managerRunning == true) that is never    *)
(* closed.  The fair specification adds what the scheduler and the clock   *)
(* give: a thread that can take its next step takes it, a task body ends,  *)
(* an open submit() call goes on, a second passes, and a wait_until that   *)
(* is not notified reaches its deadline (5 s for a temporary worker, 2 s   *)
(* for the manager).  Nobody promises a further call of submit().  A       *)
(* deadline is a point on the clock that no wake-up moves, so wake-ups     *)
(* that nobody sent, which only make the waiter evaluate its predicate     *)
(* once more, are left out.                                                *)
(***************************************************************************)
InitDynamic == Init /\ pc[M] = "loop"

NextDynamic ==
    \/ \E w \in Workers : worker_check(w)
    \/ \E w \in Workers : worker_block(w)
    \/ \E w \in Workers : worker_run(w)
    \/ \E t \in Temps : tempWorker_check(t)
    \/ \E t \in Temps : tempWorker_block(t)
    \/ \E t \in Temps : tempWorker_timeout(t)
    \/ \E t \in Temps : tempWorker_retire(t)
    \/ \E t \in Temps : tempWorker_run(t)
    \/ manager_loop
    \/ manager_block
    \/ manager_wake
    \/ manager_timeout
    \/ manager_afterwait
    \/ manager_reap
    \/ manager_scale
    \/ manager_addWorkers
    \/ Tick
    \/ submit_start
    \/ submit_check
    \/ submit_push
    \/ submit_notify
    \/ submit_return

FairnessDynamic ==
    /\ \A i \in 1..MaxThreads :
         /\ WF_vars(i <= nWorkers /\ worker_check(W(i)))
         /\ WF_vars(i <= nWorkers /\ worker_block(W(i)))
         /\ WF_vars(i <= nWorkers /\ worker_run(W(i)))
    /\ \A t \in Temps :
         /\ WF_vars(tempWorker_check(t))
         /\ WF_vars(tempWorker_block(t))
         /\ WF_vars(tempWorker_timeout(t))
         /\ WF_vars(tempWorker_retire(t))
         /\ WF_vars(tempWorker_run(t))
    /\ WF_vars(manager_loop)
    /\ WF_vars(manager_block)
    /\ WF_vars(manager_wake)
    /\ WF_vars(manager_timeout)
    /\ WF_vars(manager_afterwait)
    /\ WF_vars(manager_reap)
    /\ WF_vars(manager_scale)
    /\ WF_vars(manager_addWorkers)
    /\ WF_vars(Tick)
    /\ WF_vars(submit_check)
    /\ WF_vars(submit_push)
    /\ WF_vars(submit_notify)
    /\ WF_vars(submit_return)

FairDynamic == InitDynamic /\ [][NextDynamic]_vars /\ FairnessDynamic

(***************************************************************************)
(* The pool without dynamic scaling, shut down by two threads: one calls   *)
(* close(), the other destroys the pool, at any time relative to each      *)
(* other.  submit() calls start only before the destructor has started,    *)
(* and close() is not called on a pool whose destructor has returned.      *)
(***************************************************************************)
NextTwoClosers ==
    \/ \E w \in Workers : worker_check(w)
    \/ \E w \in Workers : worker_block(w)
    \/ \E w \in Workers : worker_run(w)
    \/ \E w \in Workers : spurious_wake(w)
    \/ cpc[Dtor] = "idle" /\ submit_start
    \/ submit_check
    \/ submit_push
    \/ submit_notify
    \/ submit_return
    \/ cpc[Dtor] # "returned" /\ close_start(Caller)
    \/ close_notifyManager(Caller)
    \/ close_drain(Caller)
    \/ close_notifyAll(Caller)
    \/ close_joinedWorker(Caller)
    \/ dtor_check
    \/ close_start(Dtor)
    \/ close_notifyManager(Dtor)
    \/ close_drain(Dtor)
    \/ close_notifyAll(Dtor)
    \/ close_joinedWorker(Dtor)

SpecTwoClosers == InitStatic /\ [][NextTwoClosers]_vars

(***************************************************************************)
(* The pool with dynamic scaling at the grain of its lock operations.  In  *)
(* the specifications above a critical section of m_tempMutex is one step. *)
(* Here the lock of m_tempMutex is a step of its own, so that a thread can *)
(* stand before it while it holds m_mutex or m_managerMutex, and the       *)
(* retirement block is three steps (lock, push, erase and return), so that *)
(* the manager can pop a handle and wait in join() for a thread that is    *)
(* still inside the block.  A client thread calls submit() and             *)
(* getThreadNum(); another thread calls close(), once, after the client's  *)
(* calls of submit() have returned (submit() and close() take none of the  *)
(* three mutexes).  The mutex inside a SafeQueue is taken and released     *)
(* within each queue operation, which takes no other lock (SafeQueue.h),   *)
(* so a queue operation stays part of the step that makes it.              *)
(***************************************************************************)
\* Line 232: std::lock_guard<std::mutex> tempLock(m_tempMutex), with m_mutex
\* held.
tempWorker_lockTemp(t) ==
    /\ pc[t] = "retire"
    /\ mutex = t
    /\ tempMutex = NoThread
    /\ tempMutex' = t
    /\ pc' = [pc EXCEPT ![t] = "push"]
    /\ UNCHANGED <<running, tasks, nWorkers, held, tempWorkers, exitQueue, nextTid,
                   joinCount, mutex, managerMutex, elapsed, addNum>>
    /\ UNCHANGED <<submitVars, taskVars, closeVars>>
    /\ UNCHANGED <<ctor, queueVars>>

\* Line 233: the thread's own handle is moved to m_threadExitQueue.
tempWorker_push(t) ==
    /\ pc[t] = "push"
    /\ tempMutex = t
    /\ exitQueue' = push(exitQueue, t)
    /\ pc' = [pc EXCEPT ![t] = "erase"]
    /\ UNCHANGED <<running, tasks, nWorkers, held, tempWorkers, nextTid, joinCount,
                   mutex, tempMutex, managerMutex, elapsed, addNum>>
    /\ UNCHANGED <<submitVars, taskVars, closeVars>>
    /\ UNCHANGED <<ctor, queueVars>>

\* Lines 234-235: the entry is erased; the return releases m_tempMutex and
\* m_mutex and ends the thread.
tempWorker_erase(t) ==
    /\ pc[t] = "erase"
    /\ tempMutex = t
    /\ tempWorkers' = tempWorkers \ {t}
    /\ pc' = [pc EXCEPT ![t] = "done"]
    /\ tempMutex' = NoThread
    /\ mutex' = NoThread
    /\ UNCHANGED <<running, tasks, nWorkers, held, exitQueue, nextTid, joinCount,
                   managerMutex, elapsed, addNum>>
    /\ UNCHANGED <<submitVars, taskVars, closeVars>>
    /\ UNCHANGED <<ctor, queueVars>>

\* Line 269: std::lock_guard<std::mutex> tempLock(m_tempMutex) in
\* addWorkers, with m_managerMutex held.
manager_lockTemp ==
    /\ pc[M] = "addWorkers"
    /\ tempMutex = NoThread
    /\ nextTid + addWorkersTemp(nWorkers, Cardinality(tempWorkers)) <= MaxSpawn
    /\ tempMutex' = M
    /\ pc' = [pc EXCEPT ![M] = "adding"]
    /\ UNCHANGED <<running, tasks, nWorkers, held, tempWorkers, exitQueue, nextTid,
                   joinCount, mutex, managerMutex, elapsed, addNum>>
    /\ UNCHANGED <<submitVars, taskVars, closeVars>>
    /\ UNCHANGED <<ctor, queueVars>>

\* Lines 270-277 and 346-349: the threads are created, m_tempMutex is
\* released, lastScaleUp is set if one was created, and the end of the
\* loop body releases m_managerMutex.
manager_addLocked ==
    /\ pc[M] = "adding"
    /\ tempMutex = M
    /\ LET n == addWorkersTemp(nWorkers, Cardinality(tempWorkers))
           new == {T(i) : i \in (nextTid + 1)..(nextTid + n)}
       IN  /\ tempWorkers' = tempWorkers \cup new
           /\ nextTid' = nextTid + n
           /\ pc' = [th \in Threads |->
                       IF th \in new THEN "check"
                       ELSE IF th = M THEN "loop" ELSE pc[th]]
           /\ addNum' = n
           /\ elapsed' = IF ScaledUp(n) THEN 0 ELSE elapsed
    /\ tempMutex' = NoThread
    /\ managerMutex' = NoThread
    /\ UNCHANGED <<running, tasks, nWorkers, held, exitQueue, joinCount, mutex>>
    /\ UNCHANGED <<submitVars, taskVars, closeVars>>
    /\ UNCHANGED <<ctor, queueVars>>

\* getThreadNum(), line 167: the call and its lock of m_tempMutex.  The
\* caller holds no lock of the pool while it waits for this one.
getThreadNum_lock ==
    /\ spc = "idle"
    /\ tempMutex = NoThread
    /\ tempMutex' = Client
    /\ spc' = "getThreadNum"
    /\ UNCHANGED <<running, tasks, nWorkers, pc, held, tempWorkers, exitQueue,
                   nextTid, joinCount, mutex, managerMutex, elapsed, addNum>>
    /\ UNCHANGED <<cur, result, startedClosed>>
    /\ UNCHANGED <<taskVars, closeVars>>
    /\ UNCHANGED <<ctor, queueVars>>

\* Variant: getThreadNum() takes m_mutex as well, inside m_tempMutex.
getThreadNum_return_UnderPoolMutex ==
    /\ spc = "getThreadNum"
    /\ mutex = NoThread
    /\ tempMutex' = NoThread
    /\ spc' = "idle"
    /\ UNCHANGED <<running, tasks, nWorkers, pc, held, tempWorkers, exitQueue,
                   nextTid, joinCount, mutex, managerMutex, elapsed, addNum>>
    /\ UNCHANGED <<cur, result, startedClosed>>
    /\ UNCHANGED <<taskVars, closeVars>>
    /\ UNCHANGED <<ctor, queueVars>>

\* Line 168: the sum is read and returned, and m_tempMutex released.
getThreadNum_return ==
    /\ spc = "getThreadNum"
    /\ tempMutex' = NoThread
    /\ spc' = "idle"
    /\ UNCHANGED <<running, tasks, nWorkers, pc, held, tempWorkers, exitQueue,
                   nextTid, joinCount, mutex, managerMutex, elapsed, addNum>>
    /\ UNCHANGED <<cur, result, startedClosed>>
    /\ UNCHANGED <<taskVars, closeVars>>
    /\ UNCHANGED <<ctor, queueVars>>

\* The client has made its MaxTasks calls of submit() and is inside no call.
SubmitsReturned == cur > MaxTasks /\ spc = "idle"

\* The steps of one thread.
WorkerStep(w) ==
    \/ worker_check(w)
    \/ worker_block(w)
    \/ worker_run(w)

TempWorkerStep(t) ==
    \/ tempWorker_check(t)
    \/ tempWorker_block(t)
    \/ tempWorker_timeout(t)
    \/ tempWorker_lockTemp(t)
    \/ tempWorker_push(t)
    \/ tempWorker_erase(t)
    \/ tempWorker_run(t)

ManagerStep ==
    \/ manager_loop
    \/ manager_block
    \/ manager_wake
    \/ manager_timeout
    \/ manager_afterwait
    \/ manager_reap
    \/ manager_scale
    \/ manager_lockTemp
    \/ manager_addLocked

ClientStep ==
    \/ submit_start
    \/ submit_check
    \/ submit_push
    \/ submit_notify
    \/ submit_return
    \/ getThreadNum_lock
    \/ getThreadNum_return

NextLocks ==
    \/ \E w \in Workers : worker_check(w)
    \/ \E w \in Workers : worker_block(w)
    \/ \E w \in Workers : worker_run(w)
    \/ \E t \in Temps : tempWorker_check(t)
    \/ \E t \in Temps : tempWorker_block(t)
    \/ \E t \in Temps : tempWorker_timeout(t)
    \/ \E t \in Temps : tempWorker_lockTemp(t)
    \/ \E t \in Temps : tempWorker_push(t)
    \/ \E t \in Temps : tempWorker_erase(t)
    \/ \E t \in Temps : tempWorker_run(t)
    \/ manager_loop
    \/ manager_block
    \/ manager_wake
    \/ manager_timeout
    \/ manager_afterwait
    \/ manager_reap
    \/ manager_scale
    \/ manager_lockTemp
    \/ manager_addLocked
    \/ Tick
    \/ submit_start
    \/ submit_check
    \/ submit_push
    \/ submit_notify
    \/ submit_return
    \/ getThreadNum_lock
    \/ getThreadNum_return
    \/ SubmitsReturned /\ closeCall = 0 /\ close_start(Caller)
    \/ close_notifyManager(Caller)
    \/ close_joinedManager(Caller)
    \/ close_drain(Caller)
    \/ close_notifyAll(Caller)
    \/ close_joinedTemp(Caller)
    \/ close_joinedWorker(Caller)

SpecLocks == InitDynamic /\ [][NextLocks]_vars

(***************************************************************************)
(* A SafeQueue used on its own by MaxQueueCallers threads, which call      *)
(* emplace_front, emplace_back, try_pop_front and try_pop_back in any      *)
(* order.  Every operation is a lock_guard on the queue's m_mutex followed *)
(* by its body; the guard is released when the body returns.  The elements *)
(* put in are numbered 1, 2, ... in the order of the emplace bodies.  The  *)
(* queue is built from SafeQueue.h or from old/SafeQueue.h.                *)
(***************************************************************************)
QueueOps == {"emplace_front", "emplace_back", "try_pop_front", "try_pop_back"}

SafeQueueGens == {"SafeQueue.h", "old/SafeQueue.h"}

\* The operations called so far.
QueueCalls == sqPut + Len(sqGot) + Cardinality({c \in QCallers : sqpc[c] # "idle"})

InitQueue ==
    /\ InitPool
    /\ pc[M] = "none"
    /\ ctor = Constructed
    /\ sq = <<>>
    /\ sqMutex = 0
    /\ sqpc = [c \in QCallers |-> "idle"]
    /\ sqPut = 0
    /\ sqGot = <<>>
    /\ sqGen \in SafeQueueGens

\* std::lock_guard<std::mutex> lock(m_mutex), the first statement of
\* operation op called by thread c.
SafeQueue_lock(c, op) ==
    /\ sqpc[c] = "idle"
    /\ QueueCalls < MaxQueueOps
    /\ sqMutex = 0
    /\ sqMutex' = c
    /\ sqpc' = [sqpc EXCEPT ![c] = op]
    /\ UNCHANGED <<sq, sqPut, sqGot, sqGen>>
    /\ UNCHANGED <<poolVars, submitVars, taskVars, closeVars, ctor>>

\* Lines 23-25.
SafeQueue_emplace_front(c) ==
    /\ sqpc[c] = "emplace_front"
    /\ sqMutex = c
    /\ sq' = emplace_front(sq, sqPut + 1)
    /\ sqPut' = sqPut + 1
    /\ sqMutex' = 0
    /\ sqpc' = [sqpc EXCEPT ![c] = "idle"]
    /\ UNCHANGED <<sqGot, sqGen>>
    /\ UNCHANGED <<poolVars, submitVars, taskVars, closeVars, ctor>>

\* Lines 29-31.
SafeQueue_emplace_back(c) ==
    /\ sqpc[c] = "emplace_back"
    /\ sqMutex = c
    /\ sq' = emplace_back(sq, sqPut + 1)
    /\ sqPut' = sqPut + 1
    /\ sqMutex' = 0
    /\ sqpc' = [sqpc EXCEPT ![c] = "idle"]
    /\ UNCHANGED <<sqGot, sqGen>>
    /\ UNCHANGED <<poolVars, submitVars, taskVars, closeVars, ctor>>

\* What the caller of a try_pop has in hand when the call returns.
Got(c, op, r) == [caller |-> c, op |-> op, present |-> r.present, value |-> r.value]

\* Lines 48-54 of either file.
SafeQueue_try_pop_front(c) ==
    /\ sqpc[c] = "try_pop_front"
    /\ sqMutex = c
    /\ \E r \in IF sqGen = "old/SafeQueue.h" THEN {old_try_pop_front(sq)}
                ELSE IF empty(sq) THEN {try_pop_front(sq, NoValue)}
                ELSE {try_pop_front(sq, seen) : seen \in DanglingRead(front(sq))} :
         /\ sq' = r.rest
         /\ sqGot' = Append(sqGot, Got(c, "try_pop_front", r))
    /\ sqMutex' = 0
    /\ sqpc' = [sqpc EXCEPT ![c] = "idle"]
    /\ UNCHANGED <<sqPut, sqGen>>
    /\ UNCHANGED <<poolVars, submitVars, taskVars, closeVars, ctor>>

\* Lines 57-63 of either file.
SafeQueue_try_pop_back(c) ==
    /\ sqpc[c] = "try_pop_back"
    /\ sqMutex = c
    /\ \E r \in IF sqGen = "old/SafeQueue.h" THEN {old_try_pop_back(sq)}
                ELSE IF empty(sq) THEN {try_pop_back(sq, NoValue)}
                ELSE {try_pop_back(sq, seen) : seen \in DanglingRead(back(sq))} :
         /\ sq' = r.rest
         /\ sqGot' = Append(sqGot, Got(c, "try_pop_back", r))
    /\ sqMutex' = 0
    /\ sqpc' = [sqpc EXCEPT ![c] = "idle"]
    /\ UNCHANGED <<sqPut, sqGen>>
    /\ UNCHANGED <<poolVars, submitVars, taskVars, closeVars, ctor>>

NextQueue ==
    \/ \E c \in QCallers, op \in QueueOps : SafeQueue_lock(c, op)
    \/ \E c \in QCallers : SafeQueue_emplace_front(c)
    \/ \E c \in QCallers : SafeQueue_emplace_back(c)
    \/ \E c \in QCallers : SafeQueue_try_pop_front(c)
    \/ \E c \in QCallers : SafeQueue_try_pop_back(c)

SpecQueue == InitQueue /\ [][NextQueue]_vars

(***************************************************************************)
(* Notions the properties are stated with.                                 *)
(***************************************************************************)
\* How often task k stands in the task queue.
Occ(k) == Cardinality({i \in 1..Len(tasks) : tasks[i] = k})

\* The threads whose local `task` is task k.
Holders(k) == {th \in Workers \cup Temps : held[th] = k}

\* The calls of submit() that returned a future.
Accepted == {k \in TaskIds : result[k] = "accepted"}

\* Every thread the pool ever started.
Started == {th \in Threads : pc[th] \notin {"none", "unborn"}}

\* close() has returned, and was called when no submit() call was open.
ClosedAfterSubmits == cpc[Caller] = "returned" /\ idleAtClose

(***************************************************************************)
(* C1.  No task loss: if every submit() call returned before close() was   *)
(* called, then when close() has returned the task queue is empty, no      *)
(* worker holds a task, and every accepted task's body has run exactly     *)
(* once (as many completions as accepted tasks).                           *)
(***************************************************************************)
C1_NoTaskLoss ==
    ClosedAfterSubmits =>
        /\ empty(tasks)
        /\ \A th \in Workers \cup Temps : held[th] = 0
        /\ \A k \in TaskIds :
             execCount[k] = (IF k \in Accepted THEN 1 ELSE 0)

C1_Witness ==
    /\ ClosedAfterSubmits
    /\ Accepted = TaskIds
    /\ \A k \in TaskIds : execCount[k] = 1

(***************************************************************************)
(* C3.  No thread is leaked: when close() has returned, every thread the   *)
(* pool started has ended and has been joined, and neither m_tempWorkers   *)
(* nor m_threadExitQueue holds a joinable handle.                          *)
(***************************************************************************)
C3_NoThreadLeaked ==
    cpc[Caller] = "returned" =>
        /\ \A th \in Started : Terminated(th) /\ joinCount[th] = 1
        /\ \A t \in tempWorkers : ~joinable(t)
        /\ \A i \in 1..Len(exitQueue) : ~joinableMoved(exitQueue[i])

(***************************************************************************)
(* C4.  At-most-once execution: a task is in the queue, or in the hands of *)
(* one worker, or has run once, never two of these and never twice; the    *)
(* threads that are running a body are those that hold a dequeued task.    *)
(***************************************************************************)
C4_AtMostOnce ==
    /\ \A k \in TaskIds :
         Occ(k) + Cardinality(Holders(k)) + execCount[k] <= 1
    /\ \A th \in Workers \cup Temps : (pc[th] = "exec") <=> (held[th] # 0)

C4_Witness ==
    /\ \E w \in Workers, t \in Temps :
         /\ pc[w] = "exec"
         /\ pc[t] = "exec"
         /\ held[w] # held[t]
    /\ \E k \in TaskIds : execCount[k] = 1

(***************************************************************************)
(* C5.  Submit-after-close: a submit() call that started when m_running    *)
(* was already false is never accepted, ends rejected (PoolClosed), its    *)
(* task is never in the queue nor in a worker's hands, and its body never  *)
(* runs.                                                                   *)
(***************************************************************************)
C5_SubmitAfterClose ==
    \A k \in TaskIds :
        startedClosed[k] =>
            /\ result[k] # "accepted"
            /\ (cur = k => spc \in {"idle", "created"})
            /\ (cur > k => result[k] = "rejected")
            /\ Occ(k) = 0
            /\ Holders(k) = {}
            /\ execCount[k] = 0
            /\ handle[k] = "pending"

C5_Witness ==
    \E k \in TaskIds :
        /\ startedClosed[k]
        /\ result[k] = "rejected"
        /\ \E j \in TaskIds : j < k /\ execCount[j] = 1

(***************************************************************************)
(* C6.  No task is pushed onto the task queue in a state where m_running   *)
(* is already false.                                                       *)
(***************************************************************************)
C6_NoPushWhenClosed ==
    [][Len(tasks') > Len(tasks) => running]_vars

(***************************************************************************)
(* C8.  close() is idempotent: every step of a close() call made after the *)
(* first call returned leaves m_running, the task queue, the worker sets,  *)
(* the retirement queue and the joins as they are.                         *)
(***************************************************************************)
C8_SecondCloseChangesNothing ==
    [][(closeCall' >= 2 /\ CloseStep) =>
         UNCHANGED <<running, tasks, nWorkers, tempWorkers, exitQueue, joinCount>>]_vars

(***************************************************************************)
(* C9.  Task failure is contained: a permanent worker ends only after      *)
(* close() was called and a temporary worker only then or by retiring,     *)
(* whatever the bodies they ran did; a task that ran has its handle        *)
(* fulfilled, with an error if its body raised; and when close() has       *)
(* returned (called after every submit() returned) every accepted task,    *)
(* failing or not, has run exactly once.                                   *)
(***************************************************************************)
C9_FailureContained ==
    /\ \A w \in Workers : Terminated(w) => ~running
    /\ \A t \in Temps : Terminated(t) => (~running \/ t \notin tempWorkers)
    /\ \A k \in TaskIds :
         execCount[k] >= 1 => handle[k] = (IF Raises(k) THEN "error" ELSE "value")
    /\ ClosedAfterSubmits =>
         \A k \in Accepted : execCount[k] = 1 /\ handle[k] # "pending"

C9_Witness ==
    /\ ClosedAfterSubmits
    /\ \E k \in Accepted : Raises(k) /\ handle[k] = "error"
    /\ \E k \in Accepted : ~Raises(k) /\ handle[k] = "value" /\ execCount[k] = 1
    /\ \E w \in Workers : joinCount[w] = 1

C2_CloseReturns ==
    (cpc[Caller] \notin {"idle", "returned"}) ~> (cpc[Caller] = "returned")

(***************************************************************************)
(* C7.  Every accepted task is eventually executed: under fair scheduling, *)
(* once submit() has returned a handle, the task's body eventually runs    *)
(* and the handle is fulfilled, whether or not a further call follows.     *)
(***************************************************************************)
C7_AcceptedEventuallyRuns ==
    \A k \in TaskIds :
        (result[k] = "accepted") ~> (execCount[k] >= 1 /\ handle[k] \in {"value", "error"})
(***************************************************************************)
(* C11.  Construction: once ThreadPool(threadCount, managerRunning) has    *)
(* returned, the number of permanent workers is threadCount (or the        *)
(* hardware parallelism, if threadCount is 0) brought into [minThreads,    *)
(* maxThreads], each of them has been started, a manager thread exists if  *)
(* and only if managerRunning was true, and m_running is true as long as   *)
(* close() has not been called.                                            *)
(***************************************************************************)
\* r is x brought into [lo, hi].
IsClamped(r, x, lo, hi) ==
    /\ r \in lo..hi
    /\ x \in lo..hi => r = x
    /\ x < lo => r = lo
    /\ x > hi => r = hi

C11_Construction ==
    ctor.pc = "returned" =>
        /\ IsClamped(nWorkers,
                     IF ctor.threadCount = 0 THEN HardwareConcurrency
                     ELSE ctor.threadCount,
                     MinThreads, MaxThreads)
        /\ Cardinality({th \in DOMAIN pc : th[1] = "w" /\ pc[th] # "unborn"}) = nWorkers
        /\ (pc[M] # "none") <=> ctor.managerRunning
        /\ closeCall = 0 => running

\* A request above the ceiling, with dynamic scaling.
C11_Witness ==
    /\ ctor.pc = "returned"
    /\ ctor.threadCount > MaxThreads
    /\ nWorkers = MaxThreads
    /\ ctor.managerRunning
    /\ pc[M] = "loop"
    /\ running

(***************************************************************************)
(* C12.  Idle retirement: in a pool with dynamic scaling that stays        *)
(* running, once the task queue is empty and no submit() call is open,     *)
(* then, unless a further task is submitted, every temporary worker        *)
(* retires, so that the temporary-worker count returns to 0 and            *)
(* getThreadNum() is the permanent count, and every handle placed on the   *)
(* retirement queue is taken off it and joined, once, by the manager.      *)
(* (The durations, 5 s and 2 s, are those of the two wait_until calls;     *)
(* what is stated is that the deadlines are reached and acted on.)         *)
(***************************************************************************)
\* The pool is running with nothing queued and no submit() call open.
Idle == running /\ empty(tasks) /\ spc = "idle"

\* The manager is about to create more temporary threads than MaxSpawn
\* lets a run have: the run is not followed beyond this point.
SpawnBoundReached ==
    /\ pc[M] = "addWorkers"
    /\ nextTid + addWorkersTemp(nWorkers, Cardinality(tempWorkers)) > MaxSpawn

C12_IdleRetirement ==
    Idle ~> \/ ~Idle
            \/ SpawnBoundReached
            \/ /\ tempWorkers = {}
               /\ getThreadNum = nWorkers
               /\ empty(exitQueue)
               /\ \A t \in Temps : pc[t] # "unborn" => joinCount[t] = 1

\* After a burst: temporary workers were created, all of them have retired
\* and the manager has joined each of them.
C12_Witness ==
    /\ Idle
    /\ cur > MaxTasks
    /\ nextTid >= 2
    /\ tempWorkers = {}
    /\ empty(exitQueue)
    /\ \A t \in Temps : pc[t] # "unborn" => (pc[t] = "done" /\ joinCount[t] = 1)

(***************************************************************************)
(* C13.  SafeQueue try-pop is an atomic test-and-remove: a try_pop_front / *)
(* try_pop_back on an empty queue returns 'absent' and leaves the queue as *)
(* it is; on a non-empty queue it removes the front / back element and     *)
(* returns exactly that element; and whatever the interleaving of the      *)
(* callers, every element put in is either still in the queue, once, or    *)
(* was returned to one caller, once.                                       *)
(***************************************************************************)
\* How often element k stands in the queue.
QueueOcc(k) == Cardinality({i \in 1..Len(sq) : sq[i] = k})

\* How often element k was returned by a try_pop.
ReturnedOcc(k) ==
    Cardinality({i \in 1..Len(sqGot) : sqGot[i].present /\ sqGot[i].value = k})

Conserved == \A k \in 1..sqPut : QueueOcc(k) + ReturnedOcc(k) = 1

C13_TryPopAtomic ==
    [][/\ Len(sqGot') > Len(sqGot) =>
            LET r == sqGot'[Len(sqGot')]
            IN  IF empty(sq)
                THEN ~r.present /\ sq' = sq
                ELSE /\ r.present
                     /\ r.op = "try_pop_front" =>
                            r.value = front(sq) /\ sq' = pop_front(sq)
                     /\ r.op = "try_pop_back" =>
                            r.value = back(sq) /\ sq' = pop_back(sq)
       /\ Conserved']_vars

(***************************************************************************)
(* C14.  Worker exit condition: a worker, permanent or temporary, leaves   *)
(* its loop because of shutdown only in a step in which it takes the pool  *)
(* mutex and finds m_running false and the task queue empty; the only      *)
(* other exit is that of a temporary worker whose wait reached its         *)
(* deadline and which, taking the pool mutex, found the task queue empty   *)
(* and m_running true.  No worker exits in a step where it found a task    *)
(* queued.                                                                 *)
(***************************************************************************)
\* Thread th ends in this step.
Exits(th) == pc[th] # "done" /\ pc'[th] = "done"

\* Thread th decides in this step to retire.
DecidesToRetire(th) == pc[th] # "retire" /\ pc'[th] = "retire"

C14_ExitCondition ==
    [][\A th \in Workers \cup Temps :
         /\ Exits(th) =>
              \/ th \in Temps /\ pc[th] = "retire" /\ mutex = th
              \/ /\ pc[th] \in {"check", "blocked"}
                 /\ mutex = NoThread
                 /\ ~running
                 /\ empty(tasks)
         /\ DecidesToRetire(th) =>
              /\ th \in Temps
              /\ pc[th] = "blocked"
              /\ mutex = NoThread /\ mutex' = th
              /\ running
              /\ empty(tasks)]_vars

\* A permanent worker and a temporary worker have ended by shutdown, and
\* another temporary worker by retiring.
C14_Witness ==
    /\ \E w \in Workers : pc[w] = "done"
    /\ \E t \in Temps : pc[t] = "done" /\ t \in tempWorkers
    /\ \E t \in Temps : pc[t] = "done" /\ t \notin tempWorkers
    /\ \A k \in TaskIds : execCount[k] = 1

(***************************************************************************)
(* C16.  Scale-up rate limit: a manager round creates temporary workers    *)
(* only when at least 1 second has passed, on the manager's clock, since   *)
(* lastScaleUp, which is the start of the manager or the last round that   *)
(* created a temporary worker; and lastScaleUp is set only by a round that *)
(* created at least one temporary worker.                                  *)
(***************************************************************************)
\* This step creates temporary workers.
ScaleUpEvent == nextTid' > nextTid

C16_RateLimit ==
    [][/\ ScaleUpEvent => elapsed >= 1
       /\ elapsed' < elapsed => ScaleUpEvent]_vars

\* Two scale-up events: a full batch and, a second or more later, one more
\* thread.
C16_Witness ==
    /\ nextTid = 3
    /\ addNum = 1
    /\ elapsed = 0

(***************************************************************************)
(* C17.  Scale-up trigger and batch: the manager creates temporary workers *)
(* only in addWorkers, which it reaches only from the test of its round,   *)
(* and the test passes only if the number of queued tasks is at least      *)
(* twice the permanent-worker count; a round creates at most               *)
(* permanent-worker-count temporary workers and leaves the temporary-      *)
(* worker count at maxThreads or below.                                    *)
(***************************************************************************)
C17_TriggerAndBatch ==
    [][/\ (pc[M] # "addWorkers" /\ pc'[M] = "addWorkers") =>
            pc[M] = "scale" /\ size(tasks) >= 2 * nWorkers
       /\ ScaleUpEvent =>
            /\ pc[M] = "addWorkers"
            /\ nextTid' - nextTid <= nWorkers
            /\ Cardinality(tempWorkers') = Cardinality(tempWorkers) + (nextTid' - nextTid)
            /\ Cardinality(tempWorkers') <= MaxThreads]_vars

\* A full batch has just been created for a backlog that is still there.
C17_Witness ==
    /\ addNum = nWorkers
    /\ nextTid = nWorkers
    /\ Cardinality(tempWorkers) = nWorkers
    /\ size(tasks) >= 2 * nWorkers
    /\ pc[M] = "loop"

(***************************************************************************)
(* C15.  Retirement hand-off: the handle of every temporary thread is in   *)
(* exactly one place, the temporary-worker map, the retirement queue, or   *)
(* already joined, and it is joined at most once; a retiring temporary     *)
(* worker moves its handle from the map to the retirement queue in one     *)
(* step that takes the temporary-worker lock; and no thread joins itself:  *)
(* the steps that join are the manager's and close()'s.                    *)
(***************************************************************************)
\* How often the handle of thread t stands in the retirement queue.
ExitOcc(t) == Cardinality({i \in 1..Len(exitQueue) : exitQueue[i] = t})

\* The places where a joinable handle of t is, or where it ended.
HandlePlaces(t) ==
    (IF t \in tempWorkers /\ joinCount[t] = 0 THEN 1 ELSE 0)
    + ExitOcc(t)
    + (IF joinCount[t] >= 1 THEN 1 ELSE 0)

C15_HandOff ==
    /\ [](\A t \in Temps : pc[t] # "unborn" =>
            HandlePlaces(t) = 1 /\ joinCount[t] <= 1)
    /\ [][\A t \in Temps :
            /\ ExitOcc(t)' > ExitOcc(t) =>
                 /\ pc[t] = "retire" /\ pc'[t] = "done"
                 /\ tempMutex = NoThread
                 /\ t \in tempWorkers /\ t \notin tempWorkers'
            /\ joinCount'[t] > joinCount[t] =>
                 /\ pc[t] = "done" /\ pc'[t] = "done"
                 /\ \/ pc[M] = "reap"
                    \/ \E c \in Closers : cpc[c] \in {"drain", "joiningTemp"}]_vars

(***************************************************************************)
(* C18.  No spawning after shutdown: no temporary worker is created in a   *)
(* state where m_running is false.                                         *)
(***************************************************************************)
C18_NoSpawnAfterClose ==
    [][ScaleUpEvent => running]_vars

(***************************************************************************)
(* C19.  The temporary-worker map is accessed only under its own lock: no  *)
(* thread inserts into the map or erases from it while close() is inside   *)
(* its pass over the map (lines 112-114), where it waits in the join of an *)
(* entry.                                                                  *)
(***************************************************************************)
\* close() call c is inside its loop over m_tempWorkers.
InsidePass(c) == cpc[c] = "joiningTemp"

C19_MapUnderLock ==
    [][tempWorkers' # tempWorkers => \A c \in Closers : ~InsidePass(c)]_vars

(***************************************************************************)
(* C20.  Concurrent close() calls are guarded: of two threads that shut    *)
(* the pool down at overlapping times (a close() call and the destructor), *)
(* at most one is inside the shutdown sequence (lines 99-118) at a time,   *)
(* and no thread is joined twice.                                          *)
(***************************************************************************)
\* close() call c is past line 97 and has not returned.
InShutdown(c) ==
    cpc[c] \in {"notifyManager", "joiningManager", "drain", "notifyAll",
                "joiningTemp", "joiningWorker"}

C20_CloseGuarded ==
    /\ Cardinality({c \in Closers : InShutdown(c)}) <= 1
    /\ \A th \in Threads : joinCount[th] <= 1

(***************************************************************************)
(* C21.  No pop on an empty task queue: a worker or temporary worker pops  *)
(* the task queue only in a step where the queue is non-empty, and it then *)
(* takes the front task; no thread is ever past a pop of the empty queue;  *)
(* m_running never goes back from false to true; and a task leaves the     *)
(* queue only by the pop of a worker that takes m_mutex for the step.      *)
(***************************************************************************)
\* Thread th executes m_tasks.pop(task) in this step.
Pops(th) ==
    /\ pc[th] \notin {"exec", "undefined"}
    /\ pc'[th] \in {"exec", "undefined"}

C21_NoPopOnEmpty ==
    /\ [](\A th \in Workers \cup Temps : pc[th] # "undefined")
    /\ [][/\ \A th \in Workers \cup Temps :
              Pops(th) => /\ ~empty(tasks)
                          /\ mutex = NoThread
                          /\ held'[th] = front(tasks)
                          /\ tasks' = pop_front(tasks)
          /\ ~running => ~running'
          /\ (tasks' # tasks /\ Len(tasks') <= Len(tasks)) =>
                \E th \in Workers \cup Temps : Pops(th)]_vars

\* Pool closed with a backlog: a permanent and a temporary worker have
\* popped the last tasks after m_running became false.
C21_Witness ==
    /\ ~running
    /\ empty(tasks)
    /\ \E w \in Workers : pc[w] = "exec" /\ startedClosed[held[w]] = FALSE
    /\ \E t \in Temps : pc[t] = "exec"
    /\ \E th \in Workers \cup Temps : pc[th] = "done"

(***************************************************************************)
(* The pool's locks: who holds them, who waits for them.                   *)
(***************************************************************************)
\* The threads that take one of the pool's three mutexes.
LockThreads == Workers \cup Temps \cup {M, Client}

LockNames == {"m_mutex", "m_tempMutex", "m_managerMutex"}

LockHolder(l) ==
    IF l = "m_mutex" THEN mutex
    ELSE IF l = "m_tempMutex" THEN tempMutex
    ELSE managerMutex

LocksHeld(th) == {l \in LockNames : LockHolder(l) = th}

\* The mutex the next step of a thread locks: m_mutex on the way into the
\* critical section or out of a wait (lines 183, 185, 225, 227),
\* m_tempMutex at lines 232 and 269, m_managerMutex at lines 318 and 325.
\* A sleeping thread and the caller of getThreadNum() hold nothing while
\* they wait.
LockWanted(th) ==
    IF th \in Workers \cup Temps /\ pc[th] = "check" THEN "m_mutex"
    ELSE IF th \in Temps /\ pc[th] = "retire" THEN "m_tempMutex"
    ELSE IF th = M /\ pc[M] = "addWorkers" THEN "m_tempMutex"
    ELSE IF th = M /\ (pc[M] = "woken" \/ (pc[M] = "loop" /\ running))
         THEN "m_managerMutex"
    ELSE "none"

\* The thread the manager's t.join() of line 338 is waiting for, if any.
JoinTarget ==
    IF /\ pc[M] = "reap"
       /\ ~empty(exitQueue)
       /\ joinableMoved(front(exitQueue))
       /\ ~Terminated(front(exitQueue))
    THEN front(exitQueue)
    ELSE NoThread

\* The thread that has what th waits for.
WaitsFor(th) ==
    IF LockWanted(th) # "none" THEN LockHolder(LockWanted(th))
    ELSE IF th = M THEN JoinTarget
    ELSE NoThread

RECURSIVE WaitChain(_, _)
WaitChain(th, n) ==
    IF n = 0 \/ th = NoThread THEN th ELSE WaitChain(WaitsFor(th), n - 1)

InWaitCycle(th) ==
    /\ WaitsFor(th) # NoThread
    /\ \E n \in 1..Cardinality(LockThreads) : WaitChain(th, n) = th

\* The next step of a thread, whatever it is.
ThreadStep(th) ==
    \/ th \in Workers /\ WorkerStep(th)
    \/ th \in Temps /\ TempWorkerStep(th)
    \/ th = M /\ ManagerStep
    \/ th = Client /\ ClientStep

\* The threads that hold a mutex.
LockHolders == {LockHolder(l) : l \in LockNames} \ {NoThread}

\* Lock l is taken in this step.
Acquired(l) ==
    \/ l = "m_mutex" /\ mutex' # mutex /\ mutex' # NoThread
    \/ l = "m_tempMutex" /\ tempMutex' # tempMutex /\ tempMutex' # NoThread
    \/ l = "m_managerMutex" /\ managerMutex' # managerMutex /\ managerMutex' # NoThread

\* C22: no deadlock on the pool's locks.  In every reachable state no
\* thread that holds a mutex is on a cycle of threads each of which waits
\* for a mutex (or, the manager in join(), for the end of a thread) that
\* the next one holds, and every such cycle has a thread that holds a
\* mutex; the thread that holds m_tempMutex, the innermost lock, can take
\* its next step; the thread the manager joins while it holds
\* m_managerMutex is the holder of m_tempMutex and wants no mutex.  In
\* every step m_tempMutex is taken by a thread that holds nothing, m_mutex
\* alone or m_managerMutex alone, and m_mutex and m_managerMutex are taken
\* by a thread that does not hold m_tempMutex.
C22_NoLockDeadlock ==
    /\ [](/\ \A th \in LockHolders : ~InWaitCycle(th)
          /\ tempMutex # NoThread => ENABLED ThreadStep(tempMutex)
          /\ JoinTarget # NoThread =>
                /\ managerMutex = M
                /\ tempMutex = JoinTarget
                /\ LockWanted(JoinTarget) = "none")
    /\ [][/\ Acquired("m_tempMutex") =>
                LocksHeld(tempMutex') \in {{}, {"m_mutex"}, {"m_managerMutex"}}
          /\ Acquired("m_mutex") => tempMutex # mutex'
          /\ Acquired("m_managerMutex") => tempMutex # managerMutex']_vars

\* A worker waits for m_mutex, which a retiring temporary worker holds; this
\* one and the manager (holding m_managerMutex in addWorkers) wait for
\* m_tempMutex, which the caller of getThreadNum() holds.
C22_Witness ==
    /\ \E w \in Workers : /\ LockWanted(w) = "m_mutex"
                          /\ WaitsFor(w) \in Temps
                          /\ LockWanted(WaitsFor(w)) = "m_tempMutex"
    /\ LockWanted(M) = "m_tempMutex"
    /\ managerMutex = M
    /\ tempMutex = Client
====
